---- MODULE Spec2Model ----
(***************************************************************************)
(* Model of pysteg's Struct (src/classes/struct.py): an ordered, fixed-set *)
(* record of named fields whose values are kept packed with the `struct`   *)
(* library and which pickles itself to bytes.                              *)
(*                                                                         *)
(* Python objects live on a heap of Struct objects addressed by id, so     *)
(* that aliasing and deep copies are what the code makes them.  A Python   *)
(* value is a record [k, n, b, s]: k is its kind, n an integer (or the id  *)
(* of a Struct), b a bytes object as a sequence of 0..255 and s a str as a *)
(* sequence of one-character strings.  Floats are modelled on the integer  *)
(* values they can hold; True and False are 1 and 0, as in Python.         *)
(* The help text and the struct name are written but never read back by    *)
(* any operation and are left out, except for the failure of the help      *)
(* text's width computation.                                               *)
(***************************************************************************)
EXTENDS Integers, Sequences, FiniteSets, TLC

\* ------------------------------------------------------------------ bounds
MaxBuilt == 2
PrimBuilt == 1
DeepBuilt == 3
MaxCopies == 1
MaxMuts == 2
MaxVolume == 3125

\* ------------------------------------------------------------ Python values
None == [k |-> "none", n |-> 0, b |-> <<>>, s |-> <<>>]
IntV(i) == [k |-> "int", n |-> i, b |-> <<>>, s |-> <<>>]
BytesV(x) == [k |-> "bytes", n |-> 0, b |-> x, s |-> <<>>]
StrV(x) == [k |-> "str", n |-> 0, b |-> <<>>, s |-> x]
RefV(id) == [k |-> "struct", n |-> id, b |-> <<>>, s |-> <<>>]

Ok(v) == [st |-> "ok", v |-> v]
Raise(e) == [st |-> e, v |-> None]

_DEFAULT_NUMBER == IntV(0)
_DEFAULT_STRING == BytesV(<<>>)

\* ------------------------------------------------------ format tag grammar
ByteOrderChars == {"@", "=", "<", ">", "!"}
NumberChars == {"?", "b", "B", "d", "f", "h", "H", "i", "I", "l", "L", "n", "N", "q", "Q"}
StringChars == {"c", "s"}
DigitChars == {"0", "1", "2", "3", "4", "5", "6", "7", "8", "9"}

HasOrder(fmt) == Len(fmt) > 0 /\ fmt[1] \in ByteOrderChars
Body(fmt) == IF HasOrder(fmt) THEN Tail(fmt) ELSE fmt

_RE_STRUCT_NUMBER(fmt) ==
    /\ Len(Body(fmt)) = 1
    /\ Body(fmt)[1] \in NumberChars

_RE_STRUCT_STRING(fmt) ==
    LET body == Body(fmt)
    IN /\ Len(body) >= 1
       /\ body[Len(body)] \in StringChars
       /\ \A i \in 1..(Len(body) - 1) : body[i] \in DigitChars

DigitVal(c) ==
    CASE c = "0" -> 0 [] c = "1" -> 1 [] c = "2" -> 2 [] c = "3" -> 3
      [] c = "4" -> 4 [] c = "5" -> 5 [] c = "6" -> 6 [] c = "7" -> 7
      [] c = "8" -> 8 [] c = "9" -> 9

RECURSIVE DigitsVal(_, _)
DigitsVal(body, i) ==
    IF i = 0 THEN 0 ELSE 10 * DigitsVal(body, i - 1) + DigitVal(body[i])

\* the repeat count of a format the grammar accepts (1 when none is written)
Count(fmt) ==
    LET body == Body(fmt)
    IN IF Len(body) = 1 THEN 1 ELSE DigitsVal(body, Len(body) - 1)

Code(fmt) == Body(fmt)[Len(Body(fmt))]

\* native mode: no byte order character, or "@"
Native(fmt) == ~HasOrder(fmt) \/ fmt[1] = "@"
BigEndian(fmt) == HasOrder(fmt) /\ fmt[1] \in {">", "!"}

\* ------------------------------------------------------- the struct library
\* width of one item of a code; 0 stands for "bad char in struct format"
\* (the native sizes are those of an LP64 little-endian build)
ItemSize(fmt) ==
    LET c == Code(fmt)
    IN CASE c \in {"c", "s", "?", "b", "B"} -> 1
         [] c \in {"h", "H"} -> 2
         [] c \in {"i", "I", "f"} -> 4
         [] c \in {"l", "L"} -> IF Native(fmt) THEN 8 ELSE 4
         [] c \in {"q", "Q", "d"} -> 8
         [] c \in {"n", "N"} -> IF Native(fmt) THEN 8 ELSE 0

BadChar(fmt) == ItemSize(fmt) = 0

StructCalcsize(fmt) ==
    IF BadChar(fmt) THEN Raise("struct.error")
    ELSE Ok(IntV(Count(fmt) * ItemSize(fmt)))

Pow2(e) == 2 ^ e

\* byte k (0 = least significant) of the two's complement form of v
ByteOf(v, k) ==
    IF k >= 3
    THEN (IF k = 3 THEN (v \div 16777216) % 256 ELSE (IF v < 0 THEN 255 ELSE 0))
    ELSE (v \div (256 ^ k)) % 256

LittleBytes(v, w) == [k \in 1..w |-> ByteOf(v, k - 1)]
Reverse(seq) == [i \in 1..Len(seq) |-> seq[Len(seq) + 1 - i]]
Ordered(fmt, le) == IF BigEndian(fmt) THEN Reverse(le) ELSE le

\* the integers a code can hold; the 4 and 8 byte codes hold every integer
\* of the model on their signed side and every non-negative one on their
\* unsigned side
IntInRange(c, v) ==
    CASE c = "B" -> 0 <= v /\ v <= 255
      [] c = "b" -> -128 <= v /\ v <= 127
      [] c = "H" -> 0 <= v /\ v <= 65535
      [] c = "h" -> -32768 <= v /\ v <= 32767
      [] c \in {"I", "L", "N", "Q"} -> 0 <= v
      [] c \in {"i", "l", "n", "q"} -> TRUE

RECURSIVE Log2(_)
Log2(v) == IF v <= 1 THEN 0 ELSE 1 + Log2(v \div 2)

Abs(v) == IF v < 0 THEN -v ELSE v

\* the integer a float32 holds after rounding v to 24 significant bits,
\* ties to even (|v| < 2^25)
RoundF32(v) ==
    LET a == Abs(v)
        r == IF a < 16777216 THEN a
             ELSE IF a % 2 = 0 THEN a
             ELSE IF ((a - 1) \div 2) % 2 = 0 THEN a - 1 ELSE a + 1
    IN IF v < 0 THEN -r ELSE r

\* IEEE 754 single: sign, 8 bit exponent, 23 bit fraction
PackF32(v) ==
    LET r == RoundF32(v)
        a == Abs(r)
        sign == IF r < 0 THEN 1 ELSE 0
        e == Log2(a)
        bexp == IF a = 0 THEN 0 ELSE 127 + e
        frac == IF a = 0 THEN 0
                ELSE IF e <= 23 THEN (a - Pow2(e)) * Pow2(23 - e)
                ELSE (a - Pow2(e)) \div Pow2(e - 23)
    IN << frac % 256, (frac \div 256) % 256,
          (bexp % 2) * 128 + (frac \div 65536), sign * 128 + (bexp \div 2) >>

UnpackF32(le) ==
    LET sign == le[4] \div 128
        bexp == (le[4] % 128) * 2 + (le[3] \div 128)
        frac == (le[3] % 128) * 65536 + le[2] * 256 + le[1]
        e == bexp - 127
        a == IF bexp = 0 THEN 0
             ELSE IF e <= 23 THEN (8388608 + frac) \div Pow2(23 - e)
             ELSE (8388608 + frac) * Pow2(e - 23)
    IN IF sign = 1 THEN -a ELSE a

\* IEEE 754 double: sign, 11 bit exponent, 52 bit fraction of which an
\* integer below 2^28 uses the top 28 bits
PackF64(v) ==
    LET a == Abs(v)
        sign == IF v < 0 THEN 1 ELSE 0
        e == Log2(a)
        bexp == IF a = 0 THEN 0 ELSE 1023 + e
        top == IF a = 0 THEN 0 ELSE (a - Pow2(e)) * Pow2(28 - e)
    IN << 0, 0, 0, top % 256, (top \div 256) % 256, (top \div 65536) % 256,
          (bexp % 16) * 16 + (top \div 16777216), sign * 128 + (bexp \div 16) >>

UnpackF64(le) ==
    LET sign == le[8] \div 128
        bexp == (le[8] % 128) * 16 + (le[7] \div 16)
        top == (le[7] % 16) * 16777216 + le[6] * 65536 + le[5] * 256 + le[4]
        e == bexp - 1023
        a == IF bexp = 0 THEN 0 ELSE (268435456 + top) \div Pow2(28 - e)
    IN IF sign = 1 THEN -a ELSE a

PadTo(x, w) == [i \in 1..w |-> IF i <= Len(x) THEN x[i] ELSE 0]

\* truth value of a Python object, as the '?' code takes it
Truth(hp, v) ==
    CASE v.k = "int" -> v.n # 0
      [] v.k = "bytes" -> Len(v.b) > 0
      [] v.k = "str" -> Len(v.s) > 0
      [] v.k = "struct" -> Len(hp[v.n].store) > 0
      [] v.k = "none" -> FALSE

\* struct.pack(fmt, value) with exactly one value, for a format the grammar
\* accepts; the result is Ok(bytes) or the library's error
StructPack(hp, fmt, v) ==
    LET c == Code(fmt)
    IN IF BadChar(fmt) THEN Raise("struct.error")
       ELSE IF c = "s"
       THEN (IF v.k = "bytes" THEN Ok(BytesV(PadTo(v.b, Count(fmt))))
             ELSE Raise("struct.error"))
       ELSE IF c = "c"
       THEN (IF Count(fmt) = 1 /\ v.k = "bytes" /\ Len(v.b) = 1
             THEN Ok(BytesV(v.b))
             ELSE Raise("struct.error"))
       ELSE IF c = "?"
       THEN Ok(BytesV(<< IF Truth(hp, v) THEN 1 ELSE 0 >>))
       ELSE IF c = "f"
       THEN (IF v.k = "int" THEN Ok(BytesV(Ordered(fmt, PackF32(v.n))))
             ELSE Raise("struct.error"))
       ELSE IF c = "d"
       THEN (IF v.k = "int" THEN Ok(BytesV(Ordered(fmt, PackF64(v.n))))
             ELSE Raise("struct.error"))
       ELSE IF v.k = "int" /\ IntInRange(c, v.n)
       THEN Ok(BytesV(Ordered(fmt, LittleBytes(v.n, ItemSize(fmt)))))
       ELSE Raise("struct.error")

\* the integer held by the little-endian bytes le; a value of 4 or 8 bytes
\* is read through its low 31 bits and its sign
UnpackInt(c, le) ==
    LET w == Len(le)
        low == IF w >= 4
               THEN le[1] + le[2] * 256 + le[3] * 65536 + (le[4] % 128) * 16777216
               ELSE IF w = 2 THEN le[1] + le[2] * 256 ELSE le[1]
        neg == c \in {"b", "h", "i", "l", "n", "q"} /\ le[w] >= 128
    IN IF ~neg THEN low
       ELSE IF w = 1 THEN low - 256
       ELSE IF w = 2 THEN low - 65536
       ELSE (low - 2147483647) - 1

\* struct.unpack(fmt, val): the tuple of unpacked items
StructUnpack(fmt, val) ==
    LET c == Code(fmt)
        le == Ordered(fmt, val)
    IN IF c = "s" THEN << BytesV(val) >>
       ELSE IF c = "c" THEN [i \in 1..Len(val) |-> BytesV(<< val[i] >>)]
       ELSE IF c = "?" THEN << IntV(IF val[1] # 0 THEN 1 ELSE 0) >>
       ELSE IF c = "f" THEN << IntV(UnpackF32(le)) >>
       ELSE IF c = "d" THEN << IntV(UnpackF64(le)) >>
       ELSE << IntV(UnpackInt(c, le)) >>

RECURSIVE JoinBytes(_, _)
JoinBytes(items, i) ==
    IF i > Len(items) THEN <<>> ELSE items[i].b \o JoinBytes(items, i + 1)

RECURSIVE RStripNul(_)
RStripNul(x) ==
    IF Len(x) > 0 /\ x[Len(x)] = 0 THEN RStripNul(SubSeq(x, 1, Len(x) - 1)) ELSE x

\* formats outside both grammars reach the library only for fields that were
\* never validated; of those the model has the ones holding a character that
\* is no format code
LibAccepts(fmt) == _RE_STRUCT_NUMBER(fmt) \/ _RE_STRUCT_STRING(fmt)

\* ------------------------------------------------------------- the heap
\* A Struct object is [store, base]: store is self._store, the ordered
\* sequence of entries, and base is what the inherited dict itself holds.
\* An entry is store[name]: either the field's dict (isdict, with its "type",
\* "default" and, once written, "value" items) or, when isdict is FALSE, the
\* Struct with id ref that was stored in its place.
DictEntry(name, type, default) ==
    [name |-> name, isdict |-> TRUE, ref |-> 0, type |-> type,
     default |-> default, hasvalue |-> FALSE, value |-> None]
StructEntry(name, id) ==
    [name |-> name, isdict |-> FALSE, ref |-> id, type |-> None,
     default |-> None, hasvalue |-> FALSE, value |-> None]

NewStruct(store) == [store |-> store, base |-> <<>>]

\* position of key in the store, 0 when absent (key in self._store)
Index(store, key) ==
    IF \E i \in 1..Len(store) : store[i].name = key
    THEN CHOOSE i \in 1..Len(store) : store[i].name = key
    ELSE 0

Keys(store) == [i \in 1..Len(store) |-> store[i].name]

\* ----------------------------------------------------------- copy.deepcopy
\* Copies every Struct a value refers to, once each (memo), appending the
\* copies to the heap.  The result is [heap, memo, v], v being the copy.
RECURSIVE DeepCopyStruct(_, _, _)
RECURSIVE DeepCopyStore(_, _, _, _)
RECURSIVE DeepCopyEntry(_, _, _, _)

DeepCopyValue(hp, memo, v) ==
    IF v.k = "struct" THEN DeepCopyStruct(hp, memo, v.n)
    ELSE [heap |-> hp, memo |-> memo, v |-> v]

\* the objects an entry holds: the Struct stored in the place of a field's
\* dict, and the dict's "type", "default" and "value" items
EntryItem(e, j) ==
    CASE j = 1 -> (IF e.isdict THEN None ELSE RefV(e.ref))
      [] j = 2 -> e.type
      [] j = 3 -> e.default
      [] j = 4 -> e.value

WithEntryItem(e, j, v) ==
    CASE j = 1 -> [e EXCEPT !.ref = v.n]
      [] j = 2 -> [e EXCEPT !.type = v]
      [] j = 3 -> [e EXCEPT !.default = v]
      [] j = 4 -> [e EXCEPT !.value = v]

DeepCopyEntry(hp, memo, e, j) ==
    IF j > 4 THEN [heap |-> hp, memo |-> memo, v |-> e]
    ELSE LET Rest(r) == DeepCopyEntry(r.heap, r.memo, WithEntryItem(e, j, r.v), j + 1)
         IN Rest(DeepCopyValue(hp, memo, EntryItem(e, j)))

DeepCopyStore(hp, memo, store, i) ==
    IF i > Len(store) THEN [heap |-> hp, memo |-> memo, v |-> store]
    ELSE LET Rest(r) == DeepCopyStore(r.heap, r.memo, [store EXCEPT ![i] = r.v], i + 1)
         IN Rest(DeepCopyEntry(hp, memo, store[i], 1))

DeepCopyStruct(hp, memo, id) ==
    IF memo[id] # 0 THEN [heap |-> hp, memo |-> memo, v |-> RefV(memo[id])]
    ELSE LET new == Len(hp) + 1
             Made(r) == [heap |-> [r.heap EXCEPT ![new] = [store |-> r.v,
                                                           base |-> hp[id].base]],
                         memo |-> r.memo, v |-> RefV(new)]
         IN Made(DeepCopyStore(Append(hp, NewStruct(<<>>)),
                               [memo EXCEPT ![id] = new], hp[id].store, 1))

NoMemo(hp) == [i \in 1..Len(hp) |-> 0]

\* ------------------------------------------------------------ Struct methods
\* self._store[key][item] for item "type" or "value": a dict lookup on the
\* field's dict, Struct.__getitem__ when a Struct sits in its place
RECURSIVE __getitem__(_, _, _)
RECURSIVE Item(_, _, _)

Item(hp, e, item) ==
    IF ~e.isdict THEN __getitem__(hp, e.ref, item)
    ELSE IF item = "type"
    THEN (IF e.type.k = "none" THEN Raise("KeyError") ELSE Ok(e.type))
    ELSE (IF e.hasvalue THEN Ok(e.value) ELSE Raise("KeyError"))

\* the value of a field whose "type" and "value" items were read as fmt and val
Unpacked(fmt, val) ==
    IF fmt.st # "ok" THEN fmt
    ELSE IF val.st # "ok" THEN val
    ELSE IF fmt.v.k # "str" THEN val
    ELSE IF val.v.k # "bytes" THEN Raise("TypeError")
    ELSE IF ~LibAccepts(fmt.v.s) \/ BadChar(fmt.v.s)
            \/ Len(val.v.b) # Count(fmt.v.s) * ItemSize(fmt.v.s)
    THEN Raise("struct.error")
    ELSE IF _RE_STRUCT_STRING(fmt.v.s)
    THEN Ok(BytesV(RStripNul(JoinBytes(StructUnpack(fmt.v.s, val.v.b), 1))))
    ELSE Ok(StructUnpack(fmt.v.s, val.v.b)[1])

__getitem__(hp, id, key) ==
    LET store == hp[id].store
        i == Index(store, key)
    IN IF i = 0 THEN Raise("KeyError")
       ELSE Unpacked(Item(hp, store[i], "type"), Item(hp, store[i], "value"))

__contains__(hp, id, item) == Index(hp[id].store, item) # 0
__iter__(hp, id) == Keys(hp[id].store)
__len__(hp, id) == Len(hp[id].store)

\* the packing step of __setitem__ and of the store validation
Pack(hp, fmt, value) ==
    IF fmt.k # "str" THEN Raise("TypeError")
    ELSE IF ~LibAccepts(fmt.s) THEN Raise("struct.error")
    ELSE StructPack(hp, fmt.s, value)

\* mutant of StoreAssign: the key is taken out and put back at the end
StoreAssignMovesKey(store, i, e) ==
    Append([j \in 1..(Len(store) - 1) |-> IF j < i THEN store[j] ELSE store[j + 1]], e)

\* self._store[key] = value on the ordered store: an existing key keeps its
\* place
StoreAssign(store, i, e) == [store EXCEPT ![i] = e]

\* __setitem__: the result is [st, heap]
RECURSIVE __setitem__(_, _, _, _)

\* the body of __setitem__ for a key of the store, at position i
SetDeclared(hp, id, i, key, value) ==
    LET store == hp[id].store
        Packed(packed) ==
            IF packed.st # "ok" THEN [st |-> packed.st, heap |-> hp]
            ELSE IF store[i].isdict
            THEN [st |-> "ok",
                  heap |-> [hp EXCEPT ![id].store[i].hasvalue = TRUE,
                                      ![id].store[i].value = packed.v]]
            ELSE __setitem__(hp, store[i].ref, "value", packed.v)
        Typed(fmt) ==
            IF fmt.st # "ok" THEN [st |-> fmt.st, heap |-> hp]
            ELSE IF fmt.v.k = "struct"
            THEN (IF value.k = "struct"
                  THEN [st |-> "ok",
                        heap |-> [hp EXCEPT ![id].store =
                                     StoreAssign(store, i, StructEntry(key, value.n))]]
                  ELSE [st |-> "TypeError", heap |-> hp])
            ELSE Packed(Pack(hp, fmt.v, value))
    IN Typed(Item(hp, store[i], "type"))

\* mutant of __setitem__: a key the store does not have is added to it
SetItemAddsKey(hp, id, key, value) ==
    LET i == Index(hp[id].store, key)
    IN IF i = 0
       THEN [st |-> "ok",
             heap |-> [hp EXCEPT ![id].store =
                          Append(hp[id].store,
                                 [DictEntry(key, None, None) EXCEPT
                                     !.hasvalue = TRUE, !.value = value])]]
       ELSE SetDeclared(hp, id, i, key, value)

__setitem__(hp, id, key, value) ==
    LET i == Index(hp[id].store, key)
    IN IF i = 0 THEN [st |-> "KeyError", heap |-> hp]
       ELSE SetDeclared(hp, id, i, key, value)

__delitem__(hp, id, key) == [st |-> "NotImplementedError", heap |-> hp]

\* calcsize: Ok(IntV(size)) or the error raised on the way
RECURSIVE calcsize(_, _)
RECURSIVE CalcsizeFrom(_, _, _, _)
CalcsizeFrom(hp, id, i, size) ==
    LET store == hp[id].store
        Sized(w) == IF w.st # "ok" THEN w
                    ELSE CalcsizeFrom(hp, id, i + 1, size + w.v.n)
        Typed(ftype) ==
            Sized(IF ftype.st # "ok" THEN ftype
                  ELSE IF ftype.v.k = "struct" THEN calcsize(hp, ftype.v.n)
                  ELSE IF ftype.v.k # "str" THEN Raise("TypeError")
                  ELSE IF ~LibAccepts(ftype.v.s) THEN Raise("struct.error")
                  ELSE StructCalcsize(ftype.v.s))
    IN IF i > Len(store) THEN Ok(IntV(size))
       ELSE Typed(Item(hp, store[i], "type"))

calcsize(hp, id) == CalcsizeFrom(hp, id, 1, 0)

\* pickle: Ok(BytesV(bytes)) or the error raised on the way
RECURSIVE pickle(_, _)
RECURSIVE PickleFrom(_, _, _, _)
PickleFrom(hp, id, i, pickled) ==
    LET store == hp[id].store
        Joined(part) == IF part.st # "ok" THEN part
                        ELSE PickleFrom(hp, id, i + 1, pickled \o part.v.b)
        Valued(fvalue) ==
            Joined(IF fvalue.st # "ok" THEN fvalue
                   ELSE IF fvalue.v.k = "struct" THEN pickle(hp, fvalue.v.n)
                   ELSE IF fvalue.v.k # "bytes" THEN Raise("TypeError")
                   ELSE fvalue)
    IN IF i > Len(store) THEN Ok(BytesV(pickled))
       ELSE Valued(Item(hp, store[i], "value"))

pickle(hp, id) == PickleFrom(hp, id, 1, <<>>)

\* __update_and_validate_store from field i on: the result is [st, store]
RECURSIVE __update_and_validate_store(_, _, _)
__update_and_validate_store(hp, store, i) ==
    IF i > Len(store) THEN [st |-> "ok", store |-> store]
    ELSE LET ftype == store[i].type
             dflt == store[i].default
             fvalue == IF dflt.k # "none" THEN dflt
                       ELSE IF _RE_STRUCT_NUMBER(ftype.s) THEN _DEFAULT_NUMBER
                       ELSE _DEFAULT_STRING
             Packed(packed) ==
                 IF packed.st # "ok" THEN [st |-> packed.st, store |-> store]
                 ELSE __update_and_validate_store(hp,
                          [store EXCEPT ![i].hasvalue = TRUE, ![i].value = packed.v],
                          i + 1)
         IN IF ftype.k = "none" THEN [st |-> "SyntaxError", store |-> store]
            ELSE IF ftype.k \notin {"struct", "str"}
            THEN [st |-> "TypeError", store |-> store]
            ELSE IF ftype.k = "str" /\ ~_RE_STRUCT_NUMBER(ftype.s)
                                    /\ ~_RE_STRUCT_STRING(ftype.s)
            THEN [st |-> "SyntaxError", store |-> store]
            ELSE IF ftype.k = "struct"
            THEN [st |-> "ok",
                  store |-> [store EXCEPT ![i].hasvalue = TRUE, ![i].value = ftype]]
            ELSE Packed(Pack(hp, ftype, fvalue))

\* __update_helpstring: only its outcome; max() of no field names fails and
\* so does reading the "type" of a field's dict that has none
__update_helpstring(store) ==
    IF Len(store) = 0 THEN "ValueError"
    ELSE IF \E i \in 1..Len(store) : store[i].type.k = "none" THEN "KeyError"
    ELSE "ok"

\* the store a declaration mapping turns into: one dict per field
DeclStore(fields) ==
    [i \in 1..Len(fields) |->
        DictEntry(fields[i].name, fields[i].type, fields[i].default)]

\* mutant of __copy_init: the store is copied, the Structs in it are shared
CopyInitShallow(hp, original) ==
    [st |-> "ok", id |-> Len(hp) + 1,
     heap |-> Append(hp, NewStruct(hp[original].store))]

\* mutant of __init__: the store is built on the declaration itself, so a
\* nested field holds the very Struct the declaration names
InitSharesDeclaration(hp, fields) ==
    LET self == Len(hp) + 1
        Helped(u, h) ==
            IF u.st # "ok" THEN [st |-> u.st, heap |-> hp, id |-> 0]
            ELSE IF h # "ok" THEN [st |-> h, heap |-> hp, id |-> 0]
            ELSE [st |-> "ok", id |-> self, heap |-> Append(hp, NewStruct(u.store))]
        Validated(u) == Helped(u, __update_helpstring(u.store))
    IN Validated(__update_and_validate_store(hp, DeclStore(fields), 1))

\* __copy_init: the new Struct gets a deep copy of the original's store
__copy_init(hp, original) ==
    LET self == Len(hp) + 1
        Copied(r) == [st |-> "ok", id |-> self,
                      heap |-> [r.heap EXCEPT ![self].store = r.v]]
    IN Copied(DeepCopyStore(Append(hp, NewStruct(<<>>)), NoMemo(hp),
                            hp[original].store, 1))

\* Struct(fields) for a declaration mapping: the result is [st, heap, id];
\* a construction that raises leaves no object behind
__init__(hp, fields) ==
    LET self == Len(hp) + 1
        Helped(r, u, h) ==
            IF u.st # "ok" THEN [st |-> u.st, heap |-> hp, id |-> 0]
            ELSE IF h # "ok" THEN [st |-> h, heap |-> hp, id |-> 0]
            ELSE [st |-> "ok", id |-> self,
                  heap |-> [r.heap EXCEPT ![self].store = u.store]]
        Validated(r, u) == Helped(r, u, __update_helpstring(u.store))
        Copied(r) == Validated(r, __update_and_validate_store(r.heap, r.v, 1))
    IN Copied(DeepCopyStore(Append(hp, NewStruct(<<>>)), NoMemo(hp),
                            DeclStore(fields), 1))

\* the methods dict provides and Struct does not override work on what the
\* dict itself holds, never on self._store: [st, heap]
pop(hp, id, key, hasdefault) ==
    IF \E i \in 1..Len(hp[id].base) : hp[id].base[i] = key
    THEN [st |-> "ok",
          heap |-> [hp EXCEPT ![id].base = SelectSeq(hp[id].base,
                                               LAMBDA k : k # key)]]
    ELSE IF hasdefault THEN [st |-> "ok", heap |-> hp]
    ELSE [st |-> "KeyError", heap |-> hp]

popitem(hp, id) ==
    IF Len(hp[id].base) = 0 THEN [st |-> "KeyError", heap |-> hp]
    ELSE [st |-> "ok",
          heap |-> [hp EXCEPT ![id].base = SubSeq(hp[id].base, 1,
                                                  Len(hp[id].base) - 1)]]

clear(hp, id) == [st |-> "ok", heap |-> [hp EXCEPT ![id].base = <<>>]]

\* ------------------------------------------------- utils/dimensions.py
\* A ratio string is a sequence of one-character strings.
\* __RE_RATIO: ^\d+(?::\d+)*$
__RE_RATIO(rstring) ==
    /\ Len(rstring) > 0
    /\ \A j \in 1..Len(rstring) : rstring[j] \in DigitChars \cup {":"}
    /\ rstring[1] # ":" /\ rstring[Len(rstring)] # ":"
    /\ \A j \in 1..(Len(rstring) - 1) : ~(rstring[j] = ":" /\ rstring[j + 1] = ":")

\* rstring.split(":"): the pieces between the colons
RECURSIVE Split(_, _, _)
Split(rstring, j, piece) ==
    IF j > Len(rstring) THEN << piece >>
    ELSE IF rstring[j] = ":" THEN << piece >> \o Split(rstring, j + 1, <<>>)
    ELSE Split(rstring, j + 1, Append(piece, rstring[j]))

\* int(piece) of a piece of decimal digits
IntOf(piece) == DigitsVal(piece, Len(piece))

__get_ratios(rstring) ==
    IF ~__RE_RATIO(rstring) THEN Raise("SyntaxError")
    ELSE Ok([j \in 1..Len(Split(rstring, 1, <<>>)) |->
                IntOf(Split(rstring, 1, <<>>)[j])])

RECURSIVE Prod(_, _)
Prod(seq, j) == IF j > Len(seq) THEN 1 ELSE seq[j] * Prod(seq, j + 1)

RECURSIVE IntPow(_, _)
IntPow(b, e) == IF e = 0 THEN 1 ELSE b * IntPow(b, e - 1)

\* 2^e mod n
RECURSIVE Rem2(_, _)
Rem2(n, e) == IF e = 0 THEN 1 % n ELSE (2 * Rem2(n, e - 1)) % n

\* The double 1 / n is (1/n) * (1 + d / 2^(52 + L)), L being the least
\* exponent with 2^L >= n: its 53 bit significand is 2^(52+L) / n rounded to
\* nearest.  InvError(n) is d: 0 when 1/n is a power of two, positive when
\* the double is above 1/n, negative when it is below.
InvError(n) ==
    LET L == IF Pow2(Log2(n)) = n THEN Log2(n) ELSE Log2(n) + 1
        Err(r) == IF r = 0 THEN 0 ELSE IF 2 * r > n THEN n - r ELSE -r
    IN Err(Rem2(n, 52 + L))

\* 10^4 * ln(1 + a/b) for 0 <= a <= b, by 2 * atanh(z) with z = a / (2b + a)
LnFrac(a, b) ==
    LET Series(z, z2) ==
            LET z3 == (z * z2) \div 10000
                z5 == (z3 * z2) \div 10000
                z7 == (z5 * z2) \div 10000
            IN 2 * (z + (z3 \div 3) + (z5 \div 5) + (z7 \div 7))
        Squared(z) == Series(z, (z * z) \div 10000)
    IN Squared((a * 10000) \div (2 * b + a))

\* 10^4 * ln(k) for an integer k >= 1
Ln(k) == Log2(k) * LnFrac(1, 1) + LnFrac(k - Pow2(Log2(k)), Pow2(Log2(k)))

\* whether the double (k^n) ** (1 / n) is above k, for integers k >= 2 and
\* n >= 2.  The exact power is k^(1 + d/2^(52+L)), that is k plus
\* k * ln(k) * d / 2^(52+L) (to first order, d / 2^(52+L) being below 2^-53);
\* the doubles next to k are 2^(Log2(k) - 52) apart and the result is the
\* nearest one, so it is above k when that excess is more than half a step.
RootAboveInteger(k, n) ==
    LET L == IF Pow2(Log2(n)) = n THEN Log2(n) ELSE Log2(n) + 1
    IN 2 * k * InvError(n) * Ln(k) > Pow2(Log2(k) + L) * 10000

\* the least i >= from with p * i^n >= volume
RECURSIVE LeastSide(_, _, _, _)
LeastSide(volume, p, n, from) ==
    IF p * IntPow(from, n) >= volume THEN from
    ELSE LeastSide(volume, p, n, from + 1)

\* math.ceil((volume / p) ** (1 / n)) for integers volume >= 0, p >= 1 and
\* n >= 1 below 2^31.  x ** 1.0 is x.  A root that is no integer is farther
\* from every integer than the rounding error of the power, so its ceiling is
\* the exact one; a root that is an integer k is computed as k or as the
\* double just above k (1 ** y is 1).
CeilRoot(volume, p, n) ==
    IF n = 1 THEN (volume + p - 1) \div p
    ELSE LET Rounded(k) ==
                 IF k >= 2 /\ p * IntPow(k, n) = volume /\ RootAboveInteger(k, n)
                 THEN k + 1 ELSE k
         IN Rounded(LeastSide(volume, p, n, 0))

\* ndims(volume, rstring): Ok(tuple) or the error raised
ndims(volume, rstring) ==
    LET Scaled(ratios) ==
            IF Prod(ratios, 1) = 0 THEN Raise("ZeroDivisionError")
            ELSE Ok([j \in 1..Len(ratios) |->
                        ratios[j] * CeilRoot(volume, Prod(ratios, 1), Len(ratios))])
        Parsed(r) == IF r.st # "ok" THEN r ELSE Scaled(r.v)
    IN Parsed(__get_ratios(rstring))

\* ---------------------------------------------------------------- the state
VARIABLES
    heap,   \* the Struct objects, by id
    recs,   \* the Structs the caller holds, in the order they were made:
            \* [id, from, names], from being the Struct it is a copy of (else
            \* 0) and names the field names of its declaration, in order
    last,   \* the last call made and how it ended: [op, st]
    nmut,   \* number of calls made on Structs so far
    dims    \* the call of ndims made, if any: [op, volume, rstring, r]

vars == << heap, recs, last, nmut, dims >>

Call(op, st) == [op |-> op, st |-> st]

\* the Structs a chain of gets can hand out, starting from those in S
Children(hp, id) ==
    { __getitem__(hp, id, k).v.n :
        k \in { n \in { hp[id].store[i].name : i \in 1..Len(hp[id].store) } :
                  /\ __getitem__(hp, id, n).st = "ok"
                  /\ __getitem__(hp, id, n).v.k = "struct" } }

RECURSIVE Reach(_, _, _)
Reach(hp, S, n) ==
    IF n = 0 THEN S
    ELSE Reach(hp, S \cup UNION { Children(hp, i) : i \in S }, n - 1)

Tree(hp, id) == Reach(hp, {id}, Len(hp))
Held == { recs[r].id : r \in 1..Len(recs) }
Built == { r \in 1..Len(recs) : recs[r].from = 0 }
Copies == { r \in 1..Len(recs) : recs[r].from # 0 }
Reachable == Reach(heap, Held, Len(heap))

NoDims == [op |-> "none", volume |-> 0, rstring |-> <<>>, r |-> Ok(<<>>)]

Init ==
    /\ heap = <<>>
    /\ recs = <<>>
    /\ last = Call("none", "ok")
    /\ nmut = 0
    /\ dims = NoDims

Holder(id) == CHOOSE r \in 1..Len(recs) : recs[r].id = id

\* Struct(fields) for a declaration mapping the caller wrote, while fewer
\* than limit Structs were built
Construct(fields, limit) ==
    /\ Cardinality(Built) < limit
    /\ \E r \in { __init__(heap, fields) } :
          /\ heap' = r.heap
          /\ recs' = IF r.st = "ok"
                     THEN Append(recs, [id |-> r.id, from |-> 0,
                                        names |-> [i \in 1..Len(fields) |-> fields[i].name]])
                     ELSE recs
          /\ last' = Call("init", r.st)
          /\ UNCHANGED << nmut, dims >>

\* Struct(original)
CopyConstruct(original) ==
    /\ Cardinality(Copies) < MaxCopies
    /\ \E r \in { __copy_init(heap, original) } :
          /\ heap' = r.heap
          /\ recs' = Append(recs, [id |-> r.id, from |-> original,
                                   names |-> recs[Holder(original)].names])
          /\ last' = Call("copy", r.st)
          /\ UNCHANGED << nmut, dims >>

\* target[key] = value
SetItem(id, key, value) ==
    /\ nmut < MaxMuts
    /\ \E r \in { __setitem__(heap, id, key, value) } :
          /\ heap' = r.heap
          /\ last' = Call("set", r.st)
          /\ nmut' = nmut + 1
          /\ UNCHANGED << recs, dims >>

\* del target[key]
DelItem(id, key) ==
    /\ nmut < MaxMuts
    /\ \E r \in { __delitem__(heap, id, key) } :
          /\ heap' = r.heap
          /\ last' = Call("del", r.st)
          /\ nmut' = nmut + 1
          /\ UNCHANGED << recs, dims >>

\* target.pop(key) and target.pop(key, default)
Pop(id, key, hasdefault) ==
    /\ nmut < MaxMuts
    /\ \E r \in { pop(heap, id, key, hasdefault) } :
          /\ heap' = r.heap
          /\ last' = Call("pop", r.st)
          /\ nmut' = nmut + 1
          /\ UNCHANGED << recs, dims >>

\* target.popitem()
PopItem(id) ==
    /\ nmut < MaxMuts
    /\ \E r \in { popitem(heap, id) } :
          /\ heap' = r.heap
          /\ last' = Call("popitem", r.st)
          /\ nmut' = nmut + 1
          /\ UNCHANGED << recs, dims >>

\* target.clear()
Clear(id) ==
    /\ nmut < MaxMuts
    /\ \E r \in { clear(heap, id) } :
          /\ heap' = r.heap
          /\ last' = Call("clear", r.st)
          /\ nmut' = nmut + 1
          /\ UNCHANGED << recs, dims >>

\* ndims(volume, rstring), once
Ndims(volume, rstring) ==
    /\ dims.op = "none"
    /\ dims' = [op |-> "ndims", volume |-> volume, rstring |-> rstring,
                r |-> ndims(volume, rstring)]
    /\ UNCHANGED << heap, recs, last, nmut >>

\* ------------------------------------------------------------------ inputs
\* declaration mappings: the fields are named in the order of `order` and
\* each has one of the field specifications
Field(name, type, default) == [name |-> name, type |-> type, default |-> default]

Decls(order, specs) ==
    UNION { { [i \in 1..n |-> Field(order[i], f[i].type, f[i].default)] :
                f \in [1..n -> specs] } : n \in 0..Len(order) }

\* the structural specification: Structs of up to three fields, numbers and
\* nested Structs, built, copied and written to
NameOrder == << "b", "a", "c" >>
Names == { NameOrder[i] : i \in 1..Len(NameOrder) }

FmtB == StrV(<< "<", "B" >>)

FieldSpecs ==
    { [type |-> FmtB, default |-> IntV(1)] }
      \cup { [type |-> RefV(id), default |-> None] : id \in Held }

SetValues ==
    { IntV(2), BytesV(<< 98 >>) } \cup { RefV(id) : id \in Held }

Next ==
    \/ \E fields \in Decls(NameOrder, FieldSpecs) : Construct(fields, MaxBuilt)
    \/ \E id \in Held : CopyConstruct(id)
    \/ \E id \in Reachable, key \in Names, v \in SetValues : SetItem(id, key, v)

Spec == Init /\ [][Next]_vars

\* the deep specification: Structs of one field, so that a third one can be
\* built around a Struct that already nests one (nesting depth two), built,
\* copied and written to
DeepOrder == << "b" >>

NextDeep ==
    \/ \E fields \in Decls(DeepOrder, FieldSpecs) : Construct(fields, DeepBuilt)
    \/ \E id \in Held : CopyConstruct(id)
    \/ \E id \in Reachable, key \in Names, v \in SetValues : SetItem(id, key, v)

SpecDeep == Init /\ [][NextDeep]_vars

\* the primitive specification: one Struct of one field, of every kind of
\* format tag, with and without a default, written to and deleted from
PrimOrder == << "f" >>
PrimKeys == {"f", "g"}

NumberFmts ==
    { << "<", "B" >>, << "<", "h" >>, << ">", "H" >>, << "?" >>, << "<", "f" >> }
StringFmts == { << "s" >>, << "2", "s" >>, << "c" >>, << "2", "c" >> }

PrimSpecs ==
    { [type |-> StrV(f), default |-> d] : f \in NumberFmts, d \in {None, IntV(1)} }
      \cup { [type |-> StrV(f), default |-> d] :
               f \in StringFmts, d \in {None, BytesV(<< 97 >>)} }

IntValues == { IntV(0), IntV(2), IntV(255), IntV(256), IntV(-1), IntV(16777217) }
BytesValues ==
    { BytesV(<<>>), BytesV(<< 98 >>), BytesV(<< 98, 0 >>), BytesV(<< 98, 99, 100 >>) }
PrimValues == IntValues \cup BytesValues

NextPrim ==
    \/ \E fields \in Decls(PrimOrder, PrimSpecs) : Construct(fields, PrimBuilt)
    \/ \E id \in Reachable, key \in PrimKeys, v \in PrimValues : SetItem(id, key, v)
    \/ \E id \in Reachable, key \in PrimKeys : DelItem(id, key)
    \/ \E id \in Reachable, key \in PrimKeys, d \in BOOLEAN : Pop(id, key, d)
    \/ \E id \in Reachable : PopItem(id)
    \/ \E id \in Reachable : Clear(id)

SpecPrim == Init /\ [][NextPrim]_vars

\* the dimensions specification: ndims on every volume up to MaxVolume and
\* on ratio strings of one to five dimensions, valid and invalid
RatioStrings ==
    { << "1" >>, << "1", "3" >>, << "1", ":", "2" >>,
      << "1", ":", "1", ":", "1" >>, << "1", ":", "2", ":", "4" >>,
      << "1", ":", "1", ":", "1", ":", "1", ":", "1" >>,
      << "2", ":", "1", ":", "1", ":", "1", ":", "1" >>,
      << "0", ":", "1" >>, << "1", ":" >>, << "1", ":", ":", "2" >>,
      << "a", ":", "b" >>, <<>> }
Volumes == 0..MaxVolume

NextDims == \E volume \in Volumes, rstring \in RatioStrings : Ndims(volume, rstring)

SpecDims == Init /\ [][NextDims]_vars

\* ------------------------------------------------------------ observations
IsOk(r) == r.st = "ok"
IsStructResult(r) == r.st = "ok" /\ r.v.k = "struct"
Objects == 1..Len(heap)

\* position of a declared field of a Struct, and what it was declared as
Declared(hp, id, key) == Index(hp[id].store, key) # 0
EntryOf(hp, id, key) == hp[id].store[Index(hp[id].store, key)]
IsNestedField(hp, id, key) ==
    /\ Declared(hp, id, key)
    /\ EntryOf(hp, id, key).isdict
    /\ EntryOf(hp, id, key).type.k = "struct"
IsPrimitiveField(hp, id, key) ==
    /\ Declared(hp, id, key)
    /\ EntryOf(hp, id, key).isdict
    /\ EntryOf(hp, id, key).type.k = "str"

\* everything get and serialize return on a Struct, at every nesting depth
RECURSIVE View(_, _)
View(hp, id) ==
    [ser |-> pickle(hp, id),
     len |-> __len__(hp, id),
     get |-> [k \in Names |->
                LET g == __getitem__(hp, id, k)
                IN [r |-> g,
                    sub |-> IF IsStructResult(g) THEN << View(hp, g.v.n) >>
                            ELSE <<>>]]]

\* the bytes the declaration order lays out: each primitive field's value
\* packed by its format, each nested field's own layout in its place
RECURSIVE Layout(_, _)
RECURSIVE LayoutFrom(_, _, _)
LayoutFrom(hp, id, i) ==
    IF i > Len(hp[id].store) THEN <<>>
    ELSE LET e == hp[id].store[i]
             g == __getitem__(hp, id, e.name)
             part == IF IsStructResult(g) THEN Layout(hp, g.v.n)
                     ELSE IF IsOk(g) /\ IsOk(Pack(hp, e.type, g.v))
                     THEN Pack(hp, e.type, g.v).v.b
                     ELSE <<>>
         IN part \o LayoutFrom(hp, id, i + 1)
Layout(hp, id) == LayoutFrom(hp, id, 1)

\* ------------------------------------------------------------------ claims

\* C1: for every constructed Struct, and after any sets on it or on its nested
\* children, pickle() returns bytes and their number is calcsize().
C1_PickleLengthIsCalcsize ==
    \A id \in Reachable :
        /\ IsOk(pickle(heap, id))
        /\ IsOk(calcsize(heap, id))
        /\ Len(pickle(heap, id).v.b) = calcsize(heap, id).v.n

\* C2: once copy = Struct(original) is made, no set on the original or on a
\* nested child of it changes anything get or pickle return on the copy, at
\* any depth, and no set on the copy or its children changes the original.
C2_CopyIsolation ==
    [][ \/ heap' = heap
        \/ \A r \in Copies :
             LET targets == { id \in Objects :
                                \E key \in Names, v \in SetValues :
                                    SetItem(id, key, v) }
             IN /\ targets \cap Tree(heap, recs[r].from) # {} =>
                     View(heap', recs[r].id) = View(heap, recs[r].id)
                /\ targets \cap Tree(heap, recs[r].id) # {} =>
                     View(heap', recs[r].from) = View(heap, recs[r].from) ]_vars

\* C2 witness: a copy and its original whose children's children, all still
\* readable, pickle differently: a set through two gets has changed one of
\* them at nesting depth two.
C2_Witness ==
    \E r \in Copies, k \in Names, kk \in Names :
        LET go == __getitem__(heap, recs[r].from, k)
            gc == __getitem__(heap, recs[r].id, k)
        IN /\ IsStructResult(go) /\ IsStructResult(gc)
           /\ LET ggo == __getitem__(heap, go.v.n, kk)
                  ggc == __getitem__(heap, gc.v.n, kk)
              IN /\ IsStructResult(ggo) /\ IsStructResult(ggc)
                 /\ IsOk(pickle(heap, ggo.v.n)) /\ IsOk(pickle(heap, ggc.v.n))
                 /\ pickle(heap, ggo.v.n) # pickle(heap, ggc.v.n)
           /\ last = Call("set", "ok")

\* the values a format tag's kind holds exactly: the integers of an integer
\* kind's range, 0 and 1 for a bool, the integers a float32 holds exactly, and
\* the byte strings no longer than a byte-string field's width
InRange(fmt, v) ==
    IF _RE_STRUCT_STRING(fmt) THEN v.k = "bytes" /\ Len(v.b) <= Count(fmt)
    ELSE /\ v.k = "int"
         /\ CASE Code(fmt) = "?" -> v.n \in {0, 1}
              [] Code(fmt) = "f" -> Abs(v.n) <= 16777216
              [] Code(fmt) = "d" -> TRUE
              [] OTHER -> IntInRange(Code(fmt), v.n)

\* C3: on a primitive field with a valid format tag, set(name, v) with an
\* in-range v followed by get(name) returns v for a numeric kind and v without
\* its trailing NUL bytes for a byte-string kind.
C3_SetThenGet ==
    [][ \A id \in Objects, key \in PrimKeys, v \in PrimValues :
          (/\ SetItem(id, key, v)
           /\ IsPrimitiveField(heap, id, key)
           /\ InRange(EntryOf(heap, id, key).type.s, v)) =>
            /\ last'.st = "ok"
            /\ __getitem__(heap', id, key) =
                 IF _RE_STRUCT_STRING(EntryOf(heap, id, key).type.s)
                 THEN Ok(BytesV(RStripNul(v.b)))
                 ELSE Ok(v) ]_vars

\* C4: on a byte-string field of width w, of kind 's' or 'c', with or without
\* a repeat count, set(name, v) succeeds for every byte string v and stores
\* exactly w bytes: v followed by NUL bytes when it is shorter than w, the
\* first w bytes of v when it is longer.
C4_BytesPaddedOrTruncated ==
    [][ \A id \in Objects, key \in PrimKeys, v \in BytesValues :
          (/\ SetItem(id, key, v)
           /\ IsPrimitiveField(heap, id, key)
           /\ _RE_STRUCT_STRING(EntryOf(heap, id, key).type.s)) =>
            LET w == Count(EntryOf(heap, id, key).type.s)
                e == EntryOf(heap', id, key)
            IN /\ last'.st = "ok"
               /\ e.hasvalue /\ e.value.k = "bytes"
               /\ Len(e.value.b) = w
               /\ \A j \in 1..w :
                    e.value.b[j] = IF j <= Len(v.b) THEN v.b[j] ELSE 0 ]_vars

\* C5: every attempt to delete a field, by del, pop, popitem or clear, in any
\* state, fails with NotImplementedError and leaves the fields as they were.
C5_DeletionAlwaysRejected ==
    [][ last'.op \in {"del", "pop", "popitem", "clear"} =>
          /\ last'.st = "NotImplementedError"
          /\ \A id \in Objects : __iter__(heap', id) = __iter__(heap, id) ]_vars

\* C6: iterating a Struct yields the field names in the order of the
\* declaration it was built from, for built Structs and copies alike, in every
\* state, whatever sets were made.
C6_DeclarationOrderKept ==
    \A r \in 1..Len(recs) :
        /\ __iter__(heap, recs[r].id) = recs[r].names
        /\ __len__(heap, recs[r].id) = Len(recs[r].names)

\* C6 witness: a copy of a three-field Struct in which a set has replaced a
\* nested field that is not the last one.
C6_Witness ==
    \E r \in Copies :
        /\ Len(recs[r].names) = 3
        /\ \E i \in 1..2 : ~heap[recs[r].id].store[i].isdict
        /\ last = Call("set", "ok")

\* C7: get and set with a name that is no declared field fail with KeyError,
\* and the failed set leaves every Struct as it was: no field is added.
C7_UndeclaredNameIsKeyError ==
    \A id \in Reachable, key \in Names :
        ~Declared(heap, id, key) =>
            /\ __getitem__(heap, id, key).st = "KeyError"
            /\ ~__contains__(heap, id, key)
            /\ \A v \in SetValues :
                 __setitem__(heap, id, key, v) = [st |-> "KeyError", heap |-> heap]

\* C7 witness: the only Struct there is has primitive fields only, one name
\* is undeclared, and the last set on it failed with KeyError.
C7_Witness ==
    /\ Len(heap) = 1
    /\ Len(recs) = 1
    /\ \E key \in Names : ~Declared(heap, 1, key)
    /\ \A i \in 1..Len(heap[1].store) : IsPrimitiveField(heap, 1, heap[1].store[i].name)
    /\ last = Call("set", "KeyError")

\* C8: pickle() returns exactly the concatenation, in declaration order, of
\* each primitive field's packed bytes with each nested field's own pickled
\* form in its place, wherever the nested fields stand.
C8_PickleIsLayout ==
    \A id \in Reachable :
        /\ IsOk(pickle(heap, id))
        /\ \A i \in 1..Len(heap[id].store) :
             IsOk(__getitem__(heap, id, heap[id].store[i].name))
        /\ pickle(heap, id).v.b = Layout(heap, id)

\* C9: constructing a Struct from a declaration whose primitive fields, of
\* any valid format tag, have no default never fails, and such a field then
\* reads back as 0 for a numeric kind and as b"" for a byte-string kind.
C9_MissingDefaultNeverFails ==
    [][ \A fields \in Decls(PrimOrder, PrimSpecs) :
          (/\ Construct(fields, PrimBuilt)
           /\ Len(fields) > 0
           /\ \A i \in 1..Len(fields) : fields[i].default = None) =>
            /\ last'.st = "ok"
            /\ Len(recs') = Len(recs) + 1
            /\ \A i \in 1..Len(fields) :
                 __getitem__(heap', recs'[Len(recs')].id, fields[i].name) =
                   IF _RE_STRUCT_STRING(fields[i].type.s)
                   THEN Ok(_DEFAULT_STRING)
                   ELSE Ok(_DEFAULT_NUMBER) ]_vars

\* C10: on a nested field, set with a Struct replaces the child: get then
\* returns that Struct and calcsize and pickle of the parent still work, the
\* pickled parent holding the new child's pickled form in the field's place;
\* set with anything else fails with TypeError.
C10_NestedSetReplaces ==
    [][ \A id \in Objects, key \in Names, v \in SetValues :
          (SetItem(id, key, v) /\ IsNestedField(heap, id, key)) =>
            IF v.k = "struct"
            THEN /\ last'.st = "ok"
                 /\ __getitem__(heap', id, key) = Ok(v)
                 /\ IsOk(calcsize(heap', id))
                 /\ IsOk(pickle(heap', id))
                 /\ pickle(heap', id).v.b = Layout(heap', id)
            ELSE last'.st = "TypeError" /\ heap' = heap ]_vars

\* C11: for every volume >= 1 and every valid ratio string of positive
\* integers r1:...:rn, ndims returns (r1*i, ..., rn*i) for one positive integer
\* i, the product of the returned elements is at least the volume, and i is
\* the smallest positive integer for which it is.
C11_SmallestScaledRatio ==
    (/\ dims.op = "ndims"
     /\ dims.volume >= 1
     /\ __RE_RATIO(dims.rstring)
     /\ \A j \in 1..Len(__get_ratios(dims.rstring).v) :
            __get_ratios(dims.rstring).v[j] >= 1) =>
        /\ IsOk(dims.r)
        /\ LET ratios == __get_ratios(dims.rstring).v
               n == Len(ratios)
               p == Prod(ratios, 1)
           IN /\ Len(dims.r.v) = n
              /\ \E i \in 1..dims.volume :
                    /\ \A j \in 1..n : dims.r.v[j] = ratios[j] * i
                    /\ p * IntPow(i, n) >= dims.volume
                    /\ \A h \in 1..(i - 1) : p * IntPow(h, n) < dims.volume

\* C12: in every Struct construction returned, and in every state sets lead
\* to, each primitive field holds packed bytes and their number is the width
\* of its format tag; none is without a packed value, whatever the order of
\* primitive and nested fields.
C12_PrimitiveFieldsPacked ==
    \A id \in Reachable : \A i \in 1..Len(heap[id].store) :
        LET e == heap[id].store[i]
        IN (e.isdict /\ e.type.k = "str") =>
             /\ e.hasvalue
             /\ e.value.k = "bytes"
             /\ Len(e.value.b) = Count(e.type.s) * ItemSize(e.type.s)

\* C13: a successful set, on a primitive field, on a nested field or on a
\* child reached through get, leaves calcsize() of every Struct what it was
\* (and so, set after set, what it was right after construction).
C13_SizeUnchangedBySets ==
    [][ (last'.op = "set" /\ last'.st = "ok") =>
          \A id \in Reachable : calcsize(heap', id) = calcsize(heap, id) ]_vars

\* C14: a set that fails leaves every stored value as it was, and a
\* construction that does not fail returns a Struct in which every declared
\* field has been given a value.
C14_AllOrNothing ==
    [][ /\ (last'.op = "set" /\ last'.st # "ok") => heap' = heap
        /\ (last'.op = "init" /\ last'.st = "ok" /\ Len(recs') = Len(recs) + 1) =>
             \A i \in 1..Len(heap'[recs'[Len(recs')].id].store) :
                 heap'[recs'[Len(recs')].id].store[i].hasvalue ]_vars

\* the bytes field i of a Struct takes in the layout
FieldLayout(hp, id, i) ==
    SubSeq(LayoutFrom(hp, id, i), 1,
           Len(LayoutFrom(hp, id, i)) - Len(LayoutFrom(hp, id, i + 1)))

\* C15: get on a nested field returns the child itself: after a successful
\* set on the Struct that get returned, the parent's get returns the same
\* Struct, now showing the set, and the parent's pickle() is what it was in
\* every field's bytes but that field's, which are the child's new pickle().
C15_GetReturnsTheChild ==
    [][ \A id \in Reachable, i \in 1..3 :
          (/\ i <= Len(heap[id].store)
           /\ IsStructResult(__getitem__(heap, id, heap[id].store[i].name))
           /\ last'.op = "set" /\ last'.st = "ok"
           /\ heap' # heap
           /\ \A o \in Objects :
                heap'[o] # heap[o] =>
                    o = __getitem__(heap, id, heap[id].store[i].name).v.n) =>
            LET name == heap[id].store[i].name
                child == __getitem__(heap, id, name).v.n
            IN /\ __getitem__(heap', id, name) = Ok(RefV(child))
               /\ IsOk(pickle(heap', id))
               /\ IsOk(pickle(heap', child))
               /\ pickle(heap', id).v.b = Layout(heap', id)
               /\ FieldLayout(heap', id, i) = pickle(heap', child).v.b
               /\ \A j \in 1..Len(heap[id].store) :
                    j # i => FieldLayout(heap', id, j) = FieldLayout(heap, id, j) ]_vars

\* C16: a declaration of no fields constructs a Struct of length 0, of size 0
\* and of empty pickle(), on which deleting any name is rejected with
\* NotImplementedError.
C16_EmptyDeclarationBuilds ==
    [][ Construct(<<>>, PrimBuilt) =>
          /\ last'.st = "ok"
          /\ Len(recs') = Len(recs) + 1
          /\ __len__(heap', recs'[Len(recs')].id) = 0
          /\ calcsize(heap', recs'[Len(recs')].id) = Ok(IntV(0))
          /\ pickle(heap', recs'[Len(recs')].id) = Ok(BytesV(<<>>))
          /\ \A key \in PrimKeys :
               __delitem__(heap', recs'[Len(recs')].id, key).st = "NotImplementedError" ]_vars

\* C17: a Struct owns copies of everything in its declaration: a set that
\* changes a Struct held by the caller, or a child reached from it by get,
\* changes nothing get or pickle return on any other Struct the caller holds,
\* be it the Struct a declaration named as a field type or another Struct
\* built from the same declaration.
C17_DeclarationIsCopied ==
    [][ \A h \in Held :
          (\E t \in Tree(heap, h) : heap'[t] # heap[t]) =>
            \A other \in Held \ {h} : View(heap', other) = View(heap, other) ]_vars

\* C17 witness: two Structs built from declarations naming the same Struct
\* as the type of their field; a set through get has changed the child of the
\* first, while the child of the second and the Struct the declarations named
\* still read the default.
C17_Witness ==
    \E d \in Built, r1 \in Built, r2 \in Built :
        LET c1 == __getitem__(heap, recs[r1].id, "b")
            c2 == __getitem__(heap, recs[r2].id, "b")
        IN /\ d # r1 /\ d # r2 /\ r1 # r2
           /\ IsPrimitiveField(heap, recs[d].id, "b")
           /\ IsStructResult(c1) /\ IsStructResult(c2)
           /\ IsPrimitiveField(heap, c1.v.n, "b")
           /\ IsPrimitiveField(heap, c2.v.n, "b")
           /\ __getitem__(heap, c1.v.n, "b") = Ok(IntV(2))
           /\ __getitem__(heap, c2.v.n, "b") = Ok(IntV(1))
           /\ __getitem__(heap, recs[d].id, "b") = Ok(IntV(1))
           /\ last = Call("set", "ok")

====
